---- MODULE Spec2Model ----
(***************************************************************************)
(* Connection orchestrator of nodeEventSource (src/src/axios.ts): one      *)
(* operation = one promise, a sequence of attempts (create), a retry timer *)
(* and an outer abort signal.  The decode pipeline of ./parse (getBytes,   *)
(* getLines, getMessages) is not part of the sources at hand; it is        *)
(* modelled at the level of decoded lines from the specification.          *)
(***************************************************************************)
EXTENDS Integers, Sequences, FiniteSets, TLC

VARIABLES
  pc,            \* position of create(): "connecting" | "opening" | "streaming" | "idle"
  attempt,       \* number of create() calls so far
  promise,       \* "pending" | "fulfilled" | "rejected"
  rejectValue,   \* the value the promise was rejected with
  ctrlAborted,   \* curRequestController.signal.aborted
  timers,        \* pending setTimeout(create, delay) timers: set of [id, delay]
  retryTimer,    \* the handle held in retryTimer (0 initially)
  nextTimerId,   \* handle the next setTimeout returns
  retryInterval, \* the retryInterval binding (current retry delay)
  hdr,           \* headers[LastEventId] of the private copy ("absent" = no such key)
  msgDirty,      \* message assembler: a field line was seen since the last emission
  signal,        \* inputSignal: "none" | "live" | "preAborted" | "fired"
  hasOnError,    \* the caller supplied an onError policy
  cfgRetry,      \* the retryInterval the caller configured (or the default)
  hasOnOpen,     \* the caller supplied an onOpen hook
  callerHeaders, \* inputHeaders, the caller's own headers object
  acc,           \* the accept entries of the private headers copy
  response,      \* the response of the current attempt, once received
  \* ---- history (observations of the run, read by the properties only) ----
  sentHeader,    \* last-event-id header sent by the current attempt's request
  idAtStart,     \* most recent id reported through onId when the attempt started
  lastId,        \* most recent id reported through onId ("none" = never)
  lastRetry,     \* most recent value reported through onRetry (-1 = never)
  lastFault,     \* fault that most recently reached the catch block
  lastVerdict,   \* what the policy did for it: "none" | "true" | "false" | "threw"
  lastThrown,    \* the value the policy threw
  errorCalls,    \* number of onError invocations
  closeCalls,    \* number of onClose invocations
  closeOutcome,  \* this attempt's onClose: "none" | "returned" | "threw"
  anyMsg,        \* onMessage has been invoked
  abortedIn,     \* phase in which the outer signal fired ("none" = not fired)
  cancelAttempt, \* attempt during which the outer signal fired (0 = not fired)
  hookAfterCancel,    \* onClose or onError was invoked after the outer signal fired
  startedAfterCancel, \* create() ran after the outer signal fired
  sinkAfterCancel,    \* the chunk sink ran for the cancelled attempt after the signal fired
  msgAfterAbort,      \* onMessage ran while the attempt's abort handle was triggered
  validated,     \* this attempt's open validation: "none" | "passed" | "failed"
  lastGiven,     \* the classified error most recently handed to the policy
  faultAfterAbort,    \* this attempt's fault was observed with its abort handle triggered
  attemptFault,  \* the fault that ended this attempt ("none" so far)
  msgAfterThrow,      \* onMessage ran after a callback of the same chunk had thrown
  startedAfterSettle, \* create() ran after the promise was settled
  sGroup,        \* decode session on its own: the lines it is given
  sLines,        \* decode session on its own: the lines not yet processed
  sMsgs,         \* decode session on its own: messages handed to onMessage
  framer         \* line framer on its own: its input, its state, the lines emitted

vars == <<pc, attempt, promise, rejectValue, ctrlAborted, timers, retryTimer,
          nextTimerId, retryInterval, hdr, msgDirty, signal, hasOnError, cfgRetry,
          sentHeader, idAtStart, lastId, lastRetry, lastFault, lastVerdict,
          lastThrown, errorCalls, closeCalls, closeOutcome, anyMsg, abortedIn,
          cancelAttempt, hookAfterCancel, startedAfterCancel, sinkAfterCancel,
          msgAfterAbort, hasOnOpen, callerHeaders, acc, response, validated,
          lastGiven, faultAfterAbort, attemptFault, msgAfterThrow, startedAfterSettle,
          sGroup, sLines, sMsgs, framer>>

\* ------------------------------------------------------------------ bounds
MaxAttempts == 2

\* --------------------------------------------------------------- constants
DefaultRetryInterval == 1000

\* the retryInterval a caller may configure
RetryConfigs == {DefaultRetryInterval, 250}

\* ------------------------------------------------------------------ values
\* no line framer runs on its own
NoFramer == [text |-> << >>, rest |-> << >>, carry |-> << >>, pending |-> << >>,
             skipLF |-> FALSE, lines |-> << >>, done |-> TRUE]

NoValue == [kind |-> "none", type |-> "-", origin |-> "-"]
Raw(f) == [kind |-> "raw", type |-> "-", origin |-> f]

\* The faults of an attempt, named by where they arise: "transport" (the
\* AxiosError of a failed exchange), "validation" (an Error thrown by the open
\* hook), "validationAxios" (an AxiosError thrown by the open hook, e.g. from
\* a request of its own), "stream", "message", "close".
\* the fault arose in the HTTP exchange itself
FromExchange(f) == f = "transport"

\* err instanceof AxiosError
IsAxiosError(f) == f \in {"transport", "validationAxios"}

\* the NodeEventSourceError handed to the policy
ClassifyByStage(f) ==
  [kind |-> "classified",
   type |-> IF FromExchange(f) THEN "Request" ELSE "Other",
   origin |-> f]
\* { type: err instanceof AxiosError ? Request : Other, origin: err }
Classify(f) ==
  [kind |-> "classified",
   type |-> IF IsAxiosError(f) THEN "Request" ELSE "Other",
   origin |-> f]

\* ------------------------------------------------------- the state record
Cur ==
  [pc |-> pc, attempt |-> attempt, promise |-> promise, rejectValue |-> rejectValue,
   ctrlAborted |-> ctrlAborted, timers |-> timers, retryTimer |-> retryTimer,
   nextTimerId |-> nextTimerId, retryInterval |-> retryInterval, hdr |-> hdr,
   msgDirty |-> msgDirty, signal |-> signal, hasOnError |-> hasOnError,
   cfgRetry |-> cfgRetry, sentHeader |-> sentHeader, idAtStart |-> idAtStart,
   lastId |-> lastId, lastRetry |-> lastRetry, lastFault |-> lastFault,
   lastVerdict |-> lastVerdict, lastThrown |-> lastThrown, errorCalls |-> errorCalls,
   closeCalls |-> closeCalls, closeOutcome |-> closeOutcome, anyMsg |-> anyMsg,
   abortedIn |-> abortedIn, cancelAttempt |-> cancelAttempt,
   hookAfterCancel |-> hookAfterCancel, startedAfterCancel |-> startedAfterCancel,
   sinkAfterCancel |-> sinkAfterCancel, msgAfterAbort |-> msgAfterAbort,
   hasOnOpen |-> hasOnOpen, callerHeaders |-> callerHeaders, acc |-> acc,
   response |-> response, validated |-> validated, lastGiven |-> lastGiven,
   faultAfterAbort |-> faultAfterAbort, attemptFault |-> attemptFault,
   msgAfterThrow |-> msgAfterThrow,
   startedAfterSettle |-> startedAfterSettle,
   thrown |-> FALSE]

CommitCore(s) ==
  /\ pc' = s.pc /\ attempt' = s.attempt /\ promise' = s.promise
  /\ rejectValue' = s.rejectValue /\ ctrlAborted' = s.ctrlAborted
  /\ timers' = s.timers /\ retryTimer' = s.retryTimer
  /\ nextTimerId' = s.nextTimerId /\ retryInterval' = s.retryInterval
  /\ hdr' = s.hdr /\ msgDirty' = s.msgDirty /\ signal' = s.signal
  /\ hasOnError' = s.hasOnError /\ cfgRetry' = s.cfgRetry
  /\ sentHeader' = s.sentHeader /\ idAtStart' = s.idAtStart /\ lastId' = s.lastId
  /\ lastRetry' = s.lastRetry /\ lastFault' = s.lastFault
  /\ lastVerdict' = s.lastVerdict /\ lastThrown' = s.lastThrown
  /\ errorCalls' = s.errorCalls /\ closeCalls' = s.closeCalls
  /\ closeOutcome' = s.closeOutcome /\ anyMsg' = s.anyMsg
  /\ abortedIn' = s.abortedIn /\ cancelAttempt' = s.cancelAttempt
  /\ hookAfterCancel' = s.hookAfterCancel
  /\ startedAfterCancel' = s.startedAfterCancel
  /\ sinkAfterCancel' = s.sinkAfterCancel /\ msgAfterAbort' = s.msgAfterAbort
  /\ hasOnOpen' = s.hasOnOpen /\ callerHeaders' = s.callerHeaders /\ acc' = s.acc
  /\ response' = s.response /\ validated' = s.validated
  /\ lastGiven' = s.lastGiven /\ faultAfterAbort' = s.faultAfterAbort
  /\ msgAfterThrow' = s.msgAfterThrow /\ attemptFault' = s.attemptFault
  /\ startedAfterSettle' = s.startedAfterSettle

\* the step of the operation that ends in state s
Commit(s) == CommitCore(s) /\ UNCHANGED <<sGroup, sLines, sMsgs, framer>>

\* ------------------------------------------------------ headers, response
EventStreamContentType == "text/event-stream"

\* A headers object as far as the operation reads or writes it: the entries
\* under the keys "accept", "Accept" and "last-event-id" ("absent" = no key).
HeaderObjects ==
  [lower : {"absent", "application/json"},
   upper : {"absent", "application/json"},
   lei   : {"absent", "c"}]

\* const headers = { ...inputHeaders }; if (!headers.accept) headers.accept = ...
CopyAccept(input) ==
  [lower |-> IF input.lower = "absent" THEN EventStreamContentType ELSE input.lower,
   upper |-> input.upper]

\* the values a headers object carries for the accept header (names of HTTP
\* headers are case-insensitive)
AcceptEntries(h) == {h.lower, h.upper} \ {"absent"}

\* A response as far as the open validation reads it: the key under which
\* response.headers holds the content type, and its value.
NoResponse == [key |-> "-", value |-> "-"]
OpaqueResponse == [key |-> "*", value |-> "*"]
Responses ==
  [key : {"Content-Type", "content-type"},
   value : {"text/event-stream", "text/event-stream; charset=utf-8", "text/html"}]

\* response.headers[key]
HeaderAt(r, key) == IF r.key = key THEN r.value ELSE "undefined"

\* contentType?.startsWith(EventStreamContentType)
StartsWithEventStream(v) ==
  v \in {"text/event-stream", "text/event-stream; charset=utf-8"}

\* the response declares the event-stream content type
Declares(r) == StartsWithEventStream(r.value)

\* defaultOnOpen returns normally (does not throw)
DefaultOnOpen(r) == StartsWithEventStream(HeaderAt(r, "Content-Type"))

\* ------------------------------------------------- promise, timer, dispose
\* resolve(): settles a pending promise, a no-op on a settled one
Resolve(s) ==
  IF s.promise = "pending" THEN [s EXCEPT !.promise = "fulfilled"] ELSE s

\* reject(v)
Reject(s, v) ==
  IF s.promise = "pending"
    THEN [s EXCEPT !.promise = "rejected", !.rejectValue = v]
    ELSE s

\* clearTimeout(retryTimer)
ClearTimeout(s) ==
  [s EXCEPT !.timers = {t \in s.timers : t.id # s.retryTimer}]

\* retryTimer = setTimeout(create, delay)
SetTimeout(s, delay) ==
  [s EXCEPT !.timers = @ \cup {[id |-> s.nextTimerId, delay |-> delay]},
            !.retryTimer = s.nextTimerId,
            !.nextTimerId = @ + 1]

DisposeNoAbort(s) == ClearTimeout(s)
\* dispose(): clearTimeout(retryTimer); curRequestController.abort()
Dispose(s) == [ClearTimeout(s) EXCEPT !.ctrlAborted = TRUE]

AbortListenerNoResolve(s) == Dispose(s)
\* the "abort" listener of inputSignal: dispose(); resolve()
AbortListener(s) == Resolve(Dispose(s))

\* the outer signal fires in phase ph: its listener runs synchronously
FireAbort(s, ph) ==
  AbortListener([s EXCEPT !.signal = "fired", !.abortedIn = ph,
                          !.cancelAttempt = s.attempt])

\* the phase names of the orchestrator's state machine
Phase(s) ==
  IF s.pc # "idle" THEN s.pc
  ELSE IF s.timers # {} THEN "retrying"
  ELSE IF s.promise # "pending" THEN "terminal"
  ELSE "stalled"

\* ------------------------------------------------------- the error policy
PolicyVerdicts == {"true", "false", "void", "throwGiven", "throwOrigin", "throwOther"}
\* what a caller's onError may do: its verdict, and whether it aborts the
\* outer signal (controller.abort()) before returning or throwing
PolicyBehaviours == [verdict : PolicyVerdicts, abort : BOOLEAN]
\* the behaviours that can differ in this run: without a caller's policy the
\* default policy runs, whatever pb is
Policies(s) ==
  IF s.hasOnError /\ ~s.ctrlAborted
    THEN {pb \in PolicyBehaviours : pb.abort => s.signal = "live"}
  ELSE {[verdict |-> "throwGiven", abort |-> FALSE]}

\* outcome of a caller-supplied onError(given) behaving as pb
UserOnError(pb, given) ==
  CASE pb.verdict = "throwGiven"  -> [ret |-> "threw", value |-> given]
    [] pb.verdict = "throwOrigin" -> [ret |-> "threw", value |-> Raw(given.origin)]
    [] pb.verdict = "throwOther"  -> [ret |-> "threw", value |-> Raw("FatalError")]
    [] OTHER                      -> [ret |-> pb.verdict, value |-> NoValue]

DefaultOnErrorReturnsFalse(given) == [ret |-> "false", value |-> NoValue]
\* defaultOnError: throw err
DefaultOnError(given) == [ret |-> "threw", value |-> given]

\* onError?.(...) ?? false, then if (shouldRetry)
ShouldRetry(ret) == ret = "true"

\* the delay handed to setTimeout(create, retryInterval)
RetryDelay(s) == s.retryInterval

\* clearTimeout(retryTimer); if (shouldRetry) retryTimer = setTimeout(create, retryInterval)
ScheduleRetry(s) == SetTimeout(ClearTimeout(s), RetryDelay(s))

OnPolicyThrowNoDispose(s, v) == Reject(s, v)
\* catch (innerErr) { dispose(); reject(innerErr) }
OnPolicyThrow(s, v) == Reject(Dispose(s), v)

\* the catch block for a fault of a request we have not aborted ourselves
CatchGenuine(s, f, pb) ==
  LET given == Classify(f)
      s1 == [s EXCEPT !.thrown = FALSE, !.lastFault = f, !.pc = "idle",
                      !.errorCalls = @ + 1, !.lastGiven = given,
                      !.hookAfterCancel = @ \/ s.signal = "fired"]
      s2 == IF pb.abort /\ s1.hasOnError /\ s1.signal = "live"
              THEN FireAbort(s1, "onError") ELSE s1
      res == IF s1.hasOnError THEN UserOnError(pb, given) ELSE DefaultOnError(given)
  IN IF res.ret = "threw"
       THEN [OnPolicyThrow(s2, res.value) EXCEPT !.lastVerdict = "threw",
                                                 !.lastThrown = res.value]
     ELSE IF ShouldRetry(res.ret)
       THEN [ScheduleRetry(s2) EXCEPT !.lastVerdict = res.ret]
     ELSE [ClearTimeout(s2) EXCEPT !.lastVerdict = res.ret]

CatchSwallows(s, f, pb) ==
  [s EXCEPT !.thrown = FALSE, !.lastFault = f, !.pc = "idle"]
CatchUnchecked(s, f, pb) == CatchGenuine(s, f, pb)
\* the catch block of create(): fault f, the policy behaving as pb
Catch(s, f, pb) ==
  IF s.ctrlAborted
    THEN \* we aborted the request ourselves: nothing is reported
         [s EXCEPT !.thrown = FALSE, !.lastFault = f, !.pc = "idle"]
    ELSE CatchGenuine(s, f, pb)

\* create() up to its first await: a fresh abort handle, the request is
\* issued with the current headers
Create(s) ==
  [s EXCEPT !.pc = "connecting",
            !.attempt = @ + 1,
            !.ctrlAborted = FALSE,
            !.sentHeader = s.hdr,
            !.idAtStart = s.lastId,
            !.closeOutcome = "none",
            !.lastVerdict = "none",
            !.response = NoResponse,
            !.validated = "none",
            !.faultAfterAbort = FALSE,
            !.attemptFault = "none",
            !.startedAfterSettle = @ \/ s.promise # "pending",
            !.startedAfterCancel = @ \/ s.signal = "fired"]

\* ------------------------------------------- the per-attempt decode session
\* A decoded line: k is the field ("id", "retry", "data") or "blank";
\* v is an id value, n a retry value.
Ln(k, v, n) == [k |-> k, v |-> v, n |-> n]
IdLine(v) == Ln("id", v, 0)
RetryLine(n) == Ln("retry", "", n)
DataLine == Ln("data", "", 0)
BlankLine == Ln("blank", "", 0)

\* chunks of a response body, as the lines they decode to
Chunks ==
  { <<DataLine, BlankLine>>,
    <<IdLine("a"), DataLine, BlankLine, DataLine, BlankLine>>,
    <<IdLine("b"), BlankLine>>,
    <<IdLine("")>>,
    <<RetryLine(3000), BlankLine>>,
    <<RetryLine(50)>> }

\* what a caller's onMessage may do
MsgBehaviours == {"ok", "throw", "abort", "abortThrow"}
\* the behaviours that can differ in this run: aborting is something else
\* than returning only on a signal that has not fired yet
Behaviours(s) ==
  IF s.signal = "live" THEN MsgBehaviours ELSE {"ok", "throw"}

OnIdSinkKeep(h, id) == IF id # "" THEN id ELSE h
\* (id) => { if (id) headers[LastEventId] = id; else delete headers[LastEventId] }
OnIdSink(h, id) == IF id # "" THEN id ELSE "absent"

OnRetrySinkStale(cur, retry) == cur
OnRetrySinkDefault(cur, retry) == DefaultRetryInterval
\* (retry) => { retryInterval = retry }
OnRetrySink(cur, retry) == retry

\* onMessage(msg) behaving as b
CallOnMessage(s, b) ==
  LET s1 == [s EXCEPT !.anyMsg = TRUE,
                      !.msgAfterAbort = @ \/ s.ctrlAborted,
                      !.msgAfterThrow = @ \/ s.thrown]
      s2 == IF b \in {"abort", "abortThrow"} /\ s1.signal = "live"
              THEN FireAbort(s1, "streaming") ELSE s1
  IN [s2 EXCEPT !.thrown = b \in {"throw", "abortThrow"}]

\* the message assembler's line sink, wired to the three sinks of create()
OnLine(s, line, b) ==
  CASE line.k = "blank" ->
         IF s.msgDirty THEN CallOnMessage([s EXCEPT !.msgDirty = FALSE], b) ELSE s
    [] line.k = "id" ->
         [s EXCEPT !.hdr = OnIdSink(s.hdr, line.v), !.lastId = line.v,
                   !.msgDirty = TRUE]
    [] line.k = "retry" ->
         [s EXCEPT !.retryInterval = OnRetrySink(s.retryInterval, line.n),
                   !.lastRetry = line.n]
    [] OTHER -> [s EXCEPT !.msgDirty = TRUE]

\* the lines of one chunk, in order, until a callback throws; behs[i] is what
\* onMessage does on its i-th invocation in this chunk
RECURSIVE Feed(_, _, _, _)
Feed(lines, s, behs, k) ==
  IF lines = << >> \/ s.thrown THEN s
  ELSE LET line == Head(lines)
           emits == line.k = "blank" /\ s.msgDirty
           k1 == IF emits THEN k + 1 ELSE k
           b == IF emits /\ k1 \in DOMAIN behs THEN behs[k1] ELSE "ok"
       IN Feed(Tail(lines), OnLine(s, line, b), behs, k1)

\* getBytes hands over chunks, and ends, only while its abort signal has not fired
Readable(s) == ~s.ctrlAborted

\* onClose?.() behaving as b
CallOnClose(s, b) ==
  LET s1 == [s EXCEPT !.closeCalls = @ + 1,
                      !.hookAfterCancel = @ \/ s.signal = "fired"]
      s2 == IF b \in {"abort", "abortThrow"} /\ s1.signal = "live"
              THEN FireAbort(s1, "onClose") ELSE s1
  IN [s2 EXCEPT !.thrown = b \in {"throw", "abortThrow"},
                !.closeOutcome = IF b \in {"throw", "abortThrow"}
                                   THEN "threw" ELSE "returned"]

AfterCloseNoResolve(s) == [Dispose(s) EXCEPT !.pc = "idle"]
\* after onClose returned: dispose(); resolve()
AfterClose(s) == [Resolve(Dispose(s)) EXCEPT !.pc = "idle"]

\* ------------------------------------------------------------------- Init
\* The state when nodeEventSource() returns its promise: the listener is
\* registered on a signal that has not fired yet (a signal that was aborted
\* before the call never dispatches "abort" again), and create() has run up
\* to its first await.
Init ==
  /\ pc = "connecting" /\ attempt = 1
  /\ promise = "pending" /\ rejectValue = NoValue
  /\ ctrlAborted = FALSE
  /\ timers = {} /\ retryTimer = 0 /\ nextTimerId = 1
  /\ cfgRetry \in RetryConfigs /\ retryInterval = cfgRetry
  /\ callerHeaders \in {h \in HeaderObjects : h.lower = "absent" /\ h.upper = "absent"}
  /\ hdr = callerHeaders.lei /\ acc = CopyAccept(callerHeaders)
  /\ hasOnOpen = TRUE /\ response = NoResponse /\ validated = "none"
  /\ lastGiven = NoValue /\ faultAfterAbort = FALSE /\ msgAfterThrow = FALSE
  /\ attemptFault = "none"
  /\ startedAfterSettle = FALSE
  /\ sGroup = << >> /\ sLines = << >> /\ sMsgs = 0
  /\ framer = NoFramer
  /\ msgDirty = FALSE
  /\ signal \in {"none", "live", "preAborted"}
  /\ hasOnError \in BOOLEAN
  /\ sentHeader = hdr /\ idAtStart = "none" /\ lastId = "none" /\ lastRetry = -1
  /\ lastFault = "none" /\ lastVerdict = "none" /\ lastThrown = NoValue
  /\ errorCalls = 0 /\ closeCalls = 0 /\ closeOutcome = "none"
  /\ anyMsg = FALSE /\ abortedIn = "none" /\ cancelAttempt = 0
  /\ hookAfterCancel = FALSE /\ startedAfterCancel = FALSE
  /\ sinkAfterCancel = FALSE /\ msgAfterAbort = FALSE

\* ---------------------------------------------------------------- actions
\* number of onMessage invocations the lines can cause at most
RECURSIVE Blanks(_)
Blanks(lines) ==
  IF lines = << >> THEN 0
  ELSE (IF Head(lines).k = "blank" THEN 1 ELSE 0) + Blanks(Tail(lines))

\* the catch block is entered with the policy behaving in any way it may
Fails(s, f) ==
  \E pb \in Policies(s) :
    Commit(Catch([s EXCEPT !.faultAfterAbort = s.ctrlAborted,
                           !.attemptFault = f], f, pb))

\* await axios(...) yields a response (never once the request was aborted)
AxiosResolves ==
  /\ pc = "connecting" /\ ~ctrlAborted
  /\ \E r \in (IF hasOnOpen THEN {OpaqueResponse} ELSE Responses) :
       Commit([Cur EXCEPT !.pc = "opening", !.response = r])

\* await axios(...) throws: a transport fault, or the cancellation
AxiosRejects ==
  /\ pc = "connecting"
  /\ Fails(Cur, "transport")

\* await onOpen(response) returns; getBytes(...) starts with a new decode session
OpenResolves ==
  /\ pc = "opening"
  /\ hasOnOpen \/ DefaultOnOpen(response)
  /\ Commit([Cur EXCEPT !.pc = "streaming", !.msgDirty = FALSE,
                        !.validated = "passed"])

\* await onOpen(response) throws
OpenRejects ==
  /\ pc = "opening"
  /\ hasOnOpen \/ ~DefaultOnOpen(response)
  /\ \E f \in (IF hasOnOpen THEN {"validation", "validationAxios"}
                           ELSE {"validation"}) :
       Fails([Cur EXCEPT !.validated = "failed"], f)

\* getBytes hands one chunk to the sink; its lines are processed synchronously
DeliverChunk ==
  /\ pc = "streaming" /\ Readable(Cur)
  /\ \E chunk \in Chunks :
       \E behs \in [1..Blanks(chunk) -> Behaviours(Cur)] :
         LET s0 == [Cur EXCEPT !.sinkAfterCancel =
                       @ \/ (signal = "fired" /\ cancelAttempt = attempt)]
             s1 == Feed(chunk, s0, behs, 0)
         IN IF s1.thrown THEN Fails(s1, "message") ELSE Commit(s1)

\* the body ends: an in-progress message is emitted, getBytes resolves,
\* then onClose?.(); dispose(); resolve()
StreamEnds ==
  /\ pc = "streaming" /\ Readable(Cur)
  /\ \E mb \in (IF msgDirty THEN Behaviours(Cur) ELSE {"ok"}) :
       LET s0 == [Cur EXCEPT !.sinkAfterCancel =
                     @ \/ (signal = "fired" /\ cancelAttempt = attempt)]
           s1 == IF msgDirty
                   THEN CallOnMessage([s0 EXCEPT !.msgDirty = FALSE], mb)
                   ELSE s0
       IN IF s1.thrown THEN Fails(s1, "message")
          ELSE IF ~Readable(s1) THEN Commit(s1)
          ELSE \E cb \in Behaviours(s1) :
                 LET s2 == CallOnClose(s1, cb)
                 IN IF s2.thrown THEN Fails(s2, "close")
                    ELSE Commit(AfterClose(s2))

\* the body stream fails
StreamErrors ==
  /\ pc = "streaming" /\ Readable(Cur)
  /\ Fails(Cur, "stream")

TimerRepeats(ts, t) == ts
\* a timer set by setTimeout fires once: it is no longer pending when its
\* callback runs
TakeTimer(ts, t) == ts \ {t}

\* the retry timer fires: create()
TimerFires ==
  /\ attempt < MaxAttempts
  /\ \E t \in timers : Commit(Create([Cur EXCEPT !.timers = TakeTimer(@, t)]))

\* the caller aborts the outer signal between two steps of the operation
Abort ==
  /\ signal = "live"
  /\ Commit(FireAbort(Cur, Phase(Cur)))

Next ==
  \/ AxiosResolves
  \/ AxiosRejects
  \/ OpenResolves
  \/ OpenRejects
  \/ DeliverChunk
  \/ StreamEnds
  \/ StreamErrors
  \/ TimerFires
  \/ Abort

Spec == Init /\ [][Next]_vars

\* The same operation for the callers that rely on the defaults: with or
\* without an onOpen hook, with an accept header of their own under either
\* spelling of its name.
InitDefaults ==
  /\ pc = "connecting" /\ attempt = 1
  /\ promise = "pending" /\ rejectValue = NoValue
  /\ ctrlAborted = FALSE
  /\ timers = {} /\ retryTimer = 0 /\ nextTimerId = 1
  /\ cfgRetry = DefaultRetryInterval /\ retryInterval = cfgRetry
  /\ callerHeaders \in {h \in HeaderObjects : /\ h.lower = "absent" \/ h.upper = "absent"
                                             /\ h.lei = "absent"}
  /\ hdr = callerHeaders.lei /\ acc = CopyAccept(callerHeaders)
  /\ hasOnOpen \in BOOLEAN /\ response = NoResponse /\ validated = "none"
  /\ msgDirty = FALSE
  /\ signal = "live"
  /\ hasOnError = TRUE
  /\ sentHeader = hdr /\ idAtStart = "none" /\ lastId = "none" /\ lastRetry = -1
  /\ lastFault = "none" /\ lastVerdict = "none" /\ lastThrown = NoValue
  /\ errorCalls = 0 /\ closeCalls = 0 /\ closeOutcome = "none"
  /\ anyMsg = FALSE /\ abortedIn = "none" /\ cancelAttempt = 0
  /\ hookAfterCancel = FALSE /\ startedAfterCancel = FALSE
  /\ sinkAfterCancel = FALSE /\ msgAfterAbort = FALSE
  /\ lastGiven = NoValue /\ faultAfterAbort = FALSE /\ msgAfterThrow = FALSE
  /\ attemptFault = "none"
  /\ startedAfterSettle = FALSE
  /\ sGroup = << >> /\ sLines = << >> /\ sMsgs = 0
  /\ framer = NoFramer

SpecDefaults == InitDefaults /\ [][Next]_vars

\* ------------------------------------- the decode session as a pure function
\* One attempt's message assembler with the sinks of create(), given a group
\* of lines from a fresh state, with callbacks that return normally.
MaxGroup == 3

\* an id value with an embedded null character
NulId == "a<NUL>b"

SessionLines == {IdLine("a"), IdLine(NulId), RetryLine(3000), DataLine, BlankLine}

RECURSIVE SeqsUpTo(_, _)
SeqsUpTo(S, n) ==
  IF n = 0 THEN {<< >>}
  ELSE LET shorter == SeqsUpTo(S, n - 1)
       IN shorter \cup {Append(q, x) : q \in shorter, x \in S}

\* an attempt in the middle of its response body
StreamingAttempt ==
  /\ pc = "streaming" /\ attempt = 1
  /\ promise = "pending" /\ rejectValue = NoValue
  /\ ctrlAborted = FALSE
  /\ timers = {} /\ retryTimer = 0 /\ nextTimerId = 1
  /\ cfgRetry = DefaultRetryInterval /\ retryInterval = cfgRetry
  /\ callerHeaders \in {h \in HeaderObjects : h.lower = "absent" /\ h.upper = "absent"}
  /\ hdr = callerHeaders.lei /\ acc = CopyAccept(callerHeaders)
  /\ hasOnOpen = TRUE /\ response = OpaqueResponse /\ validated = "passed"
  /\ msgDirty = FALSE
  /\ signal = "none"
  /\ hasOnError = FALSE
  /\ sentHeader = hdr /\ idAtStart = "none" /\ lastId = "none" /\ lastRetry = -1
  /\ lastFault = "none" /\ lastVerdict = "none" /\ lastThrown = NoValue
  /\ errorCalls = 0 /\ closeCalls = 0 /\ closeOutcome = "none"
  /\ anyMsg = FALSE /\ abortedIn = "none" /\ cancelAttempt = 0
  /\ hookAfterCancel = FALSE /\ startedAfterCancel = FALSE
  /\ sinkAfterCancel = FALSE /\ msgAfterAbort = FALSE
  /\ lastGiven = NoValue /\ faultAfterAbort = FALSE /\ msgAfterThrow = FALSE
  /\ attemptFault = "none"
  /\ startedAfterSettle = FALSE

InitSession ==
  /\ StreamingAttempt
  /\ sGroup \in SeqsUpTo(SessionLines, MaxGroup)
  /\ sLines = sGroup /\ sMsgs = 0
  /\ framer = NoFramer

\* the assembler takes the next line of the group
SessionLine ==
  /\ sLines # << >>
  /\ LET s1 == OnLine([Cur EXCEPT !.anyMsg = FALSE], Head(sLines), "ok")
     IN /\ CommitCore(s1)
        /\ sMsgs' = IF s1.anyMsg THEN sMsgs + 1 ELSE sMsgs
        /\ sLines' = Tail(sLines)
        /\ UNCHANGED <<sGroup, framer>>

NextSession == SessionLine

SpecSession == InitSession /\ [][NextSession]_vars

\* ----------------------------------------- the line framer as a pure function
\* Text is a sequence of characters: "a" (one byte), "e'" (a character of
\* two bytes, "M1" then "M2"), "CR" and "LF".  The framer is given the bytes
\* of a text cut into chunks at any byte.
MaxChars == 3

Characters == {"a", "e'", "CR", "LF"}

\* the UTF-8 bytes of a text
RECURSIVE Encode(_)
Encode(text) ==
  IF text = << >> THEN << >>
  ELSE (IF Head(text) = "e'" THEN <<"M1", "M2">> ELSE <<Head(text)>>)
         \o Encode(Tail(text))

\* a line as the framer hands it over: its text, and whether the stream
\* ended at it
Line(text, final) == [text |-> text, final |-> final]

DecodeChunkNaive(pending, bytes) ==
  LET RECURSIVE Dec(_, _)
      Dec(bs, out) ==
        IF bs = << >> THEN out
        ELSE IF Head(bs) = "M1"
          THEN IF Len(bs) >= 2 /\ bs[2] = "M2"
                 THEN Dec(Tail(Tail(bs)), Append(out, "e'"))
                 ELSE Dec(Tail(bs), Append(out, "?"))
        ELSE IF Head(bs) = "M2" THEN Dec(Tail(bs), Append(out, "?"))
        ELSE Dec(Tail(bs), Append(out, Head(bs)))
  IN [text |-> Dec(bytes, << >>), pending |-> << >>]
\* incremental decoding of one chunk: the bytes held back from the previous
\* chunk come first; a partial character at the end is held back
DecodeChunk(pending, bytes) ==
  LET RECURSIVE Dec(_, _)
      Dec(bs, out) ==
        IF bs = << >> THEN [text |-> out, pending |-> << >>]
        ELSE IF Head(bs) = "M1"
          THEN IF Len(bs) = 1 THEN [text |-> out, pending |-> bs]
               ELSE IF bs[2] = "M2"
                 THEN Dec(Tail(Tail(bs)), Append(out, "e'"))
                 ELSE Dec(Tail(bs), Append(out, "?"))
        ELSE IF Head(bs) = "M2" THEN Dec(Tail(bs), Append(out, "?"))
        ELSE Dec(Tail(bs), Append(out, Head(bs)))
  IN Dec(pending \o bytes, << >>)

\* the scan of carry-over and new text for terminators: each one ends a
\* line; the LF that follows a CR belongs to the same terminator, also when
\* the CR was the last character of the previous chunk
RECURSIVE Scan(_, _, _, _)
Scan(text, cur, lines, skipLF) ==
  IF text = << >> THEN [lines |-> lines, carry |-> cur, skipLF |-> skipLF]
  ELSE LET c == Head(text)
       IN IF c = "LF" /\ skipLF THEN Scan(Tail(text), cur, lines, FALSE)
          ELSE IF c = "LF"
            THEN Scan(Tail(text), << >>, Append(lines, Line(cur, FALSE)), FALSE)
          ELSE IF c = "CR"
            THEN Scan(Tail(text), << >>, Append(lines, Line(cur, FALSE)), TRUE)
          ELSE Scan(Tail(text), Append(cur, c), lines, FALSE)

\* the framer receives one chunk of bytes
OnChunk(f, bytes) ==
  LET d == DecodeChunk(f.pending, bytes)
      r == Scan(f.carry \o d.text, << >>, << >>, f.skipLF)
  IN [f EXCEPT !.pending = d.pending, !.carry = r.carry, !.skipLF = r.skipLF,
               !.lines = @ \o r.lines]

\* the stream ends: a non-empty carry-over is the final line
OnEnd(f) ==
  [f EXCEPT !.carry = << >>, !.done = TRUE,
            !.lines = IF f.carry = << >> THEN @
                      ELSE Append(@, Line(f.carry, TRUE))]

\* the lines of a whole text, by its terminators in the order CR LF, LF, CR
RECURSIVE SplitLines(_, _)
SplitLines(text, cur) ==
  IF text = << >>
    THEN IF cur = << >> THEN << >> ELSE <<Line(cur, TRUE)>>
  ELSE IF Len(text) >= 2 /\ text[1] = "CR" /\ text[2] = "LF"
    THEN <<Line(cur, FALSE)>> \o SplitLines(Tail(Tail(text)), << >>)
  ELSE IF Head(text) \in {"CR", "LF"}
    THEN <<Line(cur, FALSE)>> \o SplitLines(Tail(text), << >>)
  ELSE SplitLines(Tail(text), Append(cur, Head(text)))

InitFramer ==
  /\ StreamingAttempt
  /\ sGroup = << >> /\ sLines = << >> /\ sMsgs = 0
  /\ \E text \in SeqsUpTo(Characters, MaxChars) :
       framer = [text |-> text, rest |-> Encode(text), carry |-> << >>,
                 pending |-> << >>, skipLF |-> FALSE, lines |-> << >>,
                 done |-> FALSE]

\* the byte reader hands over the next chunk, of any length
FrameChunk ==
  /\ ~framer.done /\ framer.rest # << >>
  /\ \E n \in 1..Len(framer.rest) :
       framer' = [OnChunk(framer, SubSeq(framer.rest, 1, n))
                    EXCEPT !.rest = SubSeq(framer.rest, n + 1, Len(framer.rest))]
  /\ UNCHANGED <<sGroup, sLines, sMsgs>>
  /\ CommitCore(Cur)

\* the byte reader signals the end of the stream
FrameEnd ==
  /\ ~framer.done /\ framer.rest = << >>
  /\ framer' = OnEnd(framer)
  /\ UNCHANGED <<sGroup, sLines, sMsgs>>
  /\ CommitCore(Cur)

NextFramer == FrameChunk \/ FrameEnd

SpecFramer == InitFramer /\ [][NextFramer]_vars

\* ================================================================ claims

\* C1 (as claimed): once the policy has answered a genuine fault with a
\* non-truthy verdict (false, or no return value), the promise is rejected
\* and no retry is pending.
C1_NonTruthyVerdictRejects ==
  lastVerdict \in {"false", "void"} => (promise = "rejected" /\ timers = {})

\* C2 (as claimed): without a caller's policy, a fault of an attempt makes the
\* promise reject with that very fault, and no retry is scheduled or started.
C2_RejectsWithTheFault ==
  (~hasOnError /\ lastFault # "none") =>
     (promise = "rejected" /\ rejectValue = Raw(lastFault)
        /\ timers = {} /\ attempt = 1)

\* C2 (amended): without a caller's policy, a fault of an attempt whose abort
\* handle was not triggered makes the promise reject with the classified
\* error whose origin is that fault; no retry is scheduled and no further
\* attempt is started.
C2_RejectsWithClassifiedError ==
  (~hasOnError /\ errorCalls > 0) =>
     /\ promise = "rejected"
     /\ rejectValue.kind = "classified" /\ rejectValue.origin = lastFault
     /\ timers = {} /\ pc = "idle" /\ attempt = 1

C2_Witness ==
  ~hasOnError /\ lastFault = "stream" /\ promise = "rejected"

\* C3: when the outer signal fires while the operation is connecting, in its
\* open hook, streaming or waiting on the retry timer, the promise is
\* fulfilled and stays so.
C3_AbortResolves ==
  abortedIn \in {"connecting", "opening", "streaming", "retrying"} =>
     promise = "fulfilled"

C3_Witness == abortedIn = "retrying" /\ promise = "fulfilled" /\ timers = {}

\* C4 (as claimed): after the outer signal has fired, neither onClose nor
\* onError is invoked, no retry timer is pending and no attempt is started.
C4_NothingAfterCancel ==
  signal = "fired" =>
     (~hookAfterCancel /\ timers = {} /\ ~startedAfterCancel)

\* C5 (as claimed): with a signal that was already aborted at the call, no
\* message is delivered, no close or error hook runs and the promise is not
\* rejected.
C5_PreAbortedIsCancelled ==
  signal = "preAborted" =>
     (~anyMsg /\ closeCalls = 0 /\ errorCalls = 0 /\ promise # "rejected")

\* C6 (as claimed): once the attempt's abort signal has fired during the read,
\* the chunk sink does not run again and onMessage is never called.
C6_NoMessageAfterAbort == ~sinkAfterCancel /\ ~msgAfterAbort

\* C6 (amended): once the outer signal has fired during the read, the sink
\* never runs again for that attempt, neither for a chunk nor for the end of
\* the body; onMessage can still be called after the abort only for the
\* remaining lines of the chunk in which onMessage itself aborted.
C6_NoSinkAfterAbort ==
  /\ ~sinkAfterCancel
  /\ msgAfterAbort => abortedIn = "streaming"

C6_Witness == msgAfterAbort /\ pc = "streaming" /\ ctrlAborted

\* C7 (as claimed): when the body of an attempt has ended naturally, onClose
\* has run exactly once, the promise is fulfilled, and no retry is pending.
C7_NaturalEndResolves ==
  closeOutcome # "none" =>
     (closeCalls = 1 /\ promise = "fulfilled" /\ timers = {} /\ pc = "idle")

\* C7 (amended): when the body of an attempt has ended naturally, onClose has
\* run once for that attempt; if it returned normally the promise is
\* fulfilled, the attempt's abort handle is triggered, no retry is pending and
\* no attempt is active, also after earlier attempts failed and were retried.
C7_CleanCloseResolves ==
  /\ closeCalls <= attempt
  /\ closeOutcome # "none" => closeCalls >= 1
  /\ closeOutcome = "returned" =>
       (promise = "fulfilled" /\ timers = {} /\ pc = "idle" /\ ctrlAborted)

C7_Witness ==
  closeOutcome = "returned" /\ attempt = 2 /\ errorCalls = 1 /\ signal # "fired"

\* C8 (as claimed): when the policy threw, the promise is rejected with
\* exactly the thrown value, the abort handle is triggered and no retry is
\* pending.
C8_PolicyThrowRejects ==
  lastVerdict = "threw" =>
     (promise = "rejected" /\ rejectValue = lastThrown
        /\ ctrlAborted /\ timers = {})

\* C8 (amended): when the policy threw, the abort handle is triggered and no
\* retry is pending; the promise is rejected with exactly the thrown value
\* unless the outer signal had fired before the throw, in which case the
\* promise stays fulfilled.
C8_PolicyThrowRejectsUnlessCancelled ==
  lastVerdict = "threw" =>
     /\ ctrlAborted /\ timers = {} /\ pc = "idle"
     /\ IF abortedIn \in {"none", "terminal"}
          THEN promise = "rejected" /\ rejectValue = lastThrown
          ELSE promise = "fulfilled"

C8_Witness ==
  /\ lastVerdict = "threw" /\ lastThrown = Raw("FatalError")
  /\ promise = "rejected" /\ rejectValue # Classify(lastFault)

\* the current retry delay as the claim defines it
ExpectedDelay == IF lastRetry = -1 THEN cfgRetry ELSE lastRetry

\* C9: a truthy verdict leaves exactly one retry timer pending (until it
\* fires or the outer signal clears it), and every pending timer's delay is
\* the most recent retry update, or the configured interval if there was none.
C9_RetryDelay ==
  /\ Cardinality(timers) <= 1
  /\ \A t \in timers : t.delay = ExpectedDelay
  /\ (lastVerdict = "true" /\ abortedIn # "retrying") => Cardinality(timers) = 1

C9_Witness ==
  /\ lastVerdict = "true" /\ cfgRetry = 250 /\ lastRetry = 50
  /\ timers = {[id |-> 1, delay |-> 50]}

\* C10: the last-event-id header an attempt sends is the most recent id
\* reported through onId before the attempt started, and is absent when that
\* id was empty.
C10_LastEventIdHeader ==
  idAtStart # "none" =>
     sentHeader = (IF idAtStart = "" THEN "absent" ELSE idAtStart)

C10_Witness == attempt = 2 /\ idAtStart = "" /\ sentHeader = "absent"

\* C11: an id: line whose value contains a null character leaves the
\* last-event-id header state unchanged (while the id sink is still called
\* with the raw value).  Under SpecSession.
C11_NulIdLeavesHeader ==
  [][(sLines # << >> /\ Head(sLines) = IdLine(NulId))
       => (hdr' = hdr /\ lastId' = NulId)]_vars

C12_DefaultValidation ==
  (~hasOnOpen /\ validated # "none")
    => (validated = "passed" <=> Declares(response))

\* C19: when the caller's headers carry an accept header, the headers every
\* attempt is issued with carry that accept header and no other (the
\* caller's own object, callerHeaders, is written by no step).
\* Under SpecDefaults.
C19_CallerAcceptSentUnchanged ==
  AcceptEntries(callerHeaders) # {}
    => AcceptEntries(acc) = AcceptEntries(callerHeaders)

\* C13 (as claimed): an exception thrown by onMessage ends the decoding of
\* its attempt (no later message, no onClose) and always reaches the policy
\* as a fault; a policy that rethrows makes the promise reject with what it
\* threw.
C13_MessageFaultReported ==
  attemptFault = "message" =>
     /\ pc = "idle" /\ closeOutcome = "none" /\ ~msgAfterThrow
     /\ lastVerdict # "none" /\ lastGiven = Classify("message")

\* C13 (amended): an exception thrown by onMessage ends the decoding of its
\* attempt (no later message, no onClose); unless the attempt's abort handle
\* was already triggered when it was caught, it reaches the policy classified
\* as Other with the exception as origin, and when the policy throws while
\* the outer signal has not fired the promise rejects with the thrown value.
C13_MessageFaultReportedUnlessAborted ==
  attemptFault = "message" =>
     /\ pc = "idle" /\ closeOutcome = "none" /\ ~msgAfterThrow
     /\ IF faultAfterAbort
          THEN lastVerdict = "none" /\ promise # "rejected"
          ELSE /\ lastVerdict # "none"
               /\ lastGiven = [kind |-> "classified", type |-> "Other",
                               origin |-> "message"]
               /\ (lastVerdict = "threw" /\ abortedIn \in {"none", "terminal"})
                    => (promise = "rejected" /\ rejectValue = lastThrown)

C13_Witness ==
  /\ attemptFault = "message" /\ ~faultAfterAbort /\ anyMsg
  /\ lastVerdict = "threw" /\ lastThrown = Raw("message")
  /\ promise = "rejected" /\ rejectValue = Raw("message")

\* C16: at most one retry timer is pending, and only while no attempt is
\* connecting, in its open hook or streaming; every attempt after the first
\* was started by the timer that a retry verdict on the previous attempt's
\* fault had set.
C16_OneAttemptOneTimer ==
  /\ Cardinality(timers) <= 1
  /\ timers # {} => (pc = "idle" /\ lastVerdict = "true" /\ attemptFault # "none")
  /\ errorCalls >= attempt - 1

C16_Witness ==
  attempt = 2 /\ pc = "idle" /\ Cardinality(timers) = 1 /\ errorCalls = 2

\* C17: a fault of an attempt observed when the attempt's abort handle had
\* already been triggered is suppressed: the policy is not invoked for it, no
\* retry is scheduled, and the promise is fulfilled.
C17_SelfInflictedFaultSuppressed ==
  faultAfterAbort =>
     /\ lastVerdict = "none" /\ timers = {} /\ pc = "idle"
     /\ promise = "fulfilled"

C17_Witness ==
  /\ faultAfterAbort /\ attemptFault = "transport" /\ abortedIn = "connecting"
  /\ promise = "fulfilled" /\ errorCalls = 0

\* C18 (as claimed): the error handed to the policy has type Request exactly
\* when the fault arose in the HTTP exchange itself, and carries the fault as
\* origin.
C18_ClassifiedByOrigin ==
  (attemptFault # "none" /\ ~faultAfterAbort) =>
     /\ lastGiven.kind = "classified" /\ lastGiven.origin = attemptFault
     /\ lastGiven.type = "Request" <=> FromExchange(attemptFault)

\* C18 (amended): the error handed to the policy has type Request exactly
\* when the fault is an AxiosError, whichever stage raised it, and type Other
\* otherwise; it carries the fault as origin.
C18_ClassifiedByClass ==
  (attemptFault # "none" /\ ~faultAfterAbort) =>
     /\ lastGiven.kind = "classified" /\ lastGiven.origin = attemptFault
     /\ lastGiven.type = "Request" <=> IsAxiosError(attemptFault)
     /\ lastGiven.type = "Other" <=> ~IsAxiosError(attemptFault)

C18_Witness ==
  /\ attemptFault = "validationAxios" /\ ~faultAfterAbort
  /\ lastGiven.type = "Request" /\ lastGiven.origin = "validationAxios"

\* C20: once the promise is settled no retry timer is pending and no new
\* attempt is started.
C20_SettledIsFinal ==
  promise # "pending" => (timers = {} /\ ~startedAfterSettle)

\* C14: however the bytes of a text are cut into chunks, also inside a
\* character of several bytes or between the CR and the LF of one terminator,
\* the framer emits the lines of the text, in order, CR LF counting as one
\* line break.  Under SpecFramer.
C14_ChunkingInvariant ==
  /\ framer.done => framer.lines = SplitLines(framer.text, << >>)
  /\ \A i \in 1..Len(framer.lines) :
       i <= Len(SplitLines(framer.text, << >>))
         /\ framer.lines[i].text = SplitLines(framer.text, << >>)[i].text

C14_Witness ==
  /\ framer.text = <<"e'", "CR", "LF">> /\ framer.done
  /\ framer.lines = <<Line(<<"e'">>, FALSE)>>

============================================================================
